---- MODULE Spec2Model ----
(***************************************************************************)
(* Model of pyautokit's versioned backup engine                            *)
(* (src/pyautokit/backup_manager.py, class BackupManager).                 *)
(*                                                                         *)
(* File names are sequences of one-character strings, so that naming,      *)
(* glob matching, suffix sniffing and the name ordering of list_backups    *)
(* are computed on the text the code builds.  A path is a sequence of      *)
(* file names relative to the backup directory; the only directory other   *)
(* than the backup directory that the model can reach is its parent,       *)
(* through the component "..".                                             *)
(*                                                                         *)
(* The clock counts ticks; TicksPerSecond ticks make one second of the     *)
(* second-resolution timestamp, while modification times keep the tick.    *)
(*                                                                         *)
(* As shipped, the module cannot be imported: list_backups is annotated    *)
(* List[Dict] (line 143) and Dict is never imported (line 9).  The model   *)
(* describes the methods' bodies.                                          *)
(***************************************************************************)
EXTENDS Integers, Sequences, FiniteSets, TLC

\* ------------------------------------------------------------- bounds
MaxClock == 5
MaxCreates == 3
MaxVersion == 1
TicksPerSecond == 2

\* ------------------------------------------------------------- text
\* The characters of the model in ASCII order: str comparison is by code point.
Alphabet ==
  << "*", ".", "/", "0", "1", "2", "3", "4", "5", "6", "7", "8", "9",
     "?", "_", "a", "b", "c", "g", "i", "p", "r", "s", "t", "x", "y", "z" >>

OrdOf ==
  [c \in {Alphabet[i] : i \in 1..Len(Alphabet)} |->
     CHOOSE i \in 1..Len(Alphabet) : Alphabet[i] = c]

Ord(c) == OrdOf[c]

Min(a, b) == IF a <= b THEN a ELSE b
Max(a, b) == IF a >= b THEN a ELSE b

\* str.__lt__, from index i on: the first difference decides, and a proper
\* prefix is less.
RECURSIVE StrLessFrom(_, _, _)
StrLessFrom(a, b, i) ==
  IF i > Len(a) THEN i <= Len(b)
  ELSE IF i > Len(b) THEN FALSE
  ELSE IF a[i] = b[i] THEN StrLessFrom(a, b, i + 1)
  ELSE Ord(a[i]) < Ord(b[i])

StrLess(a, b) == StrLessFrom(a, b, 1)

\* PurePath.__lt__: the parts are compared as a list of strings.
RECURSIVE PathLessFrom(_, _, _)
PathLessFrom(p, q, i) ==
  IF i > Len(p) THEN i <= Len(q)
  ELSE IF i > Len(q) THEN FALSE
  ELSE IF p[i] = q[i] THEN PathLessFrom(p, q, i + 1)
  ELSE StrLess(p[i], q[i])

PathLess(p, q) == PathLessFrom(p, q, 1)

\* str.split(sep): the pieces between the separators, empty pieces kept.
Split(s, sep) ==
  LET at == {i \in 1..Len(s) : s[i] = sep}
      \* the k-th separator; 0 before the first, Len(s) + 1 after the last
      cut(k) == IF k = 0 THEN 0
                ELSE IF k > Cardinality(at) THEN Len(s) + 1
                ELSE CHOOSE i \in at : Cardinality({j \in at : j < i}) = k - 1
  IN  [k \in 1..(Cardinality(at) + 1) |-> SubSeq(s, cut(k - 1) + 1, cut(k) - 1)]

\* str.rfind(c): the last index of c, from 0; -1 when absent.
RFind(s, c) ==
  LET hits == {i \in 1..Len(s) : s[i] = c}
  IN  IF hits = {} THEN -1 ELSE (CHOOSE i \in hits : \A j \in hits : j <= i) - 1

\* str.lstrip(c)
RECURSIVE LStrip(_, _)
LStrip(s, c) == IF s # <<>> /\ s[1] = c THEN LStrip(Tail(s), c) ELSE s

\* PurePath.suffix of a file name.
Suffix(name) ==
  LET i == RFind(name, ".")
  IN  IF 0 < i /\ i < Len(name) - 1 THEN SubSeq(name, i + 1, Len(name)) ELSE <<>>

\* PurePath.suffixes of a file name.
Suffixes(name) ==
  IF name # <<>> /\ name[Len(name)] = "." THEN <<>>
  ELSE LET parts == Split(LStrip(name, "."), ".")
       IN  [i \in 1..(Len(parts) - 1) |-> <<".">> \o parts[i + 1]]

\* The parts of backup_dir / text, relative to the backup directory.
PathOf(text) == Split(text, "/")

\* fnmatch of one path component against one pattern component, from index i
\* of the name and j of the pattern; the metacharacters of the model's
\* alphabet are "*" and "?".
RECURSIVE FnMatchFrom(_, _, _, _)
FnMatchFrom(s, pat, i, j) ==
  IF j > Len(pat) THEN i > Len(s)
  ELSE IF pat[j] = "*"
       THEN \/ j = Len(pat)
            \/ FnMatchFrom(s, pat, i, j + 1)
            \/ (i <= Len(s) /\ FnMatchFrom(s, pat, i + 1, j))
  ELSE IF pat[j] = "?"
       THEN i <= Len(s) /\ FnMatchFrom(s, pat, i + 1, j + 1)
  ELSE i <= Len(s) /\ s[i] = pat[j] /\ FnMatchFrom(s, pat, i + 1, j + 1)

FnMatch(s, pat) == FnMatchFrom(s, pat, 1, 1)

\* Path.glob(pattern) over the paths of `files`: component by component.
Glob(files, pattern) ==
  LET parts == PathOf(pattern)
  IN  {p \in DOMAIN files :
         /\ Len(p) = Len(parts)
         /\ \A i \in 1..Len(p) : FnMatch(p[i], parts[i])}

\* datetime.now().strftime("%Y%m%d_%H%M%S") at tick t of the model's day.
Digit(n) == Alphabet[n + 4]
TwoDigits(n) == <<Digit(n \div 10), Digit(n % 10)>>
Today == <<"2", "0", "2", "4", "0", "1", "0", "1">>

SecondOf(t) == t \div TicksPerSecond

_get_timestamp(t) ==
  LET s == SecondOf(t)
  IN  Today \o <<"_">> \o TwoDigits(s \div 3600)
        \o TwoDigits((s \div 60) % 60) \o TwoDigits(s % 60)

\* ------------------------------------------------------------- inputs
\* An optional name argument: Python's None, or a string.
NoName == [some |-> FALSE, s |-> <<>>]
Some(s) == [some |-> TRUE, s |-> s]

DotDot == <<".", ".">>

\* The source paths handed to create_backup, by base name (Path.name).
Sources == {"a", "a_b", "c"}

SrcName(s) ==
  CASE s = "a" -> <<"a">>
    [] s = "a_b" -> <<"a", "_", "b">>
    [] OTHER -> <<"c">>

\* The calls of create_backup: <<source, name argument>>.
PlainCalls == { <<"a", NoName>>, <<"a_b", NoName>> }
EscapingCall == <<"a", Some(<<".", ".", "/", "a">>)>>
NamedCall == <<"a", Some(<<"a", "b">>)>>
DottedCall == <<"a", Some(<<"a", ".", "t", "a", "r", ".", "b">>)>>
DottedDirCall == <<"a_b", Some(<<"a", ".", "t", "a", "r", ".", "b">>)>>
MissingCall == <<"c", Some(<<"a">>)>>

\* The name arguments list_backups is called with.
ListNames == { NoName, Some(<<>>), Some(<<"a">>), Some(<<"a", "?">>) }

\* The values of self.compression: the CLI's choices (line 218).
Compressions == {"zip", "tar", "tar.gz", "none"}

\* The values of keep_versions the engines are built with.
KeepChoices == {1, 2}

\* ------------------------------------------------------------- state
VARIABLES
  now,            \* the clock, in ticks
  compression,    \* self.compression
  keep_versions,  \* self.keep_versions
  src,            \* the source paths: kind, files, modification time
  bdir,           \* whether the backup directory exists
  fs,             \* the files under (and beside) the backup directory, by path
  dest,           \* the destination of the restore_backup that just ended
  res,            \* the outcome of the call that just ended
  hist,           \* history of the calls
  proc            \* the create_backup calls under way in concurrent processes

vars ==
  <<now, compression, keep_versions, src, bdir, fs, dest, res, hist, proc>>

\* A function with one more (or one changed) point.
Put(f, k, v) == [x \in DOMAIN f \cup {k} |-> IF x = k THEN v ELSE f[x]]
Remove(f, k) == [x \in DOMAIN f \ {k} |-> f[x]]
EmptyMap == [x \in {} |-> 0]
Count(f, k) == IF k \in DOMAIN f THEN f[k] ELSE 0

\* One file of a tree: <<path relative to the tree's root, content>>.  A plain
\* file is a tree whose only path is the empty one.
FileTree(data) == {<< <<>>, data >>}

InitSrc ==
  [s \in Sources |->
     CASE s = "a" -> [kind |-> "file", tree |-> FileTree(0), mtime |-> 0]
       [] s = "a_b" ->
            [kind |-> "dir",
             tree |-> { << <<<<"x">>>>, 0 >>, << <<<<"s">>, <<"y">>>>, 0 >> },
             mtime |-> 0]
       [] OTHER -> [kind |-> "absent", tree |-> {}, mtime |-> 0]]

NoDest == [kind |-> "absent", tree |-> {}]

\* The outcome of a call: what it returned (ret), the exception that left it
\* (exc) or that it caught (caught), and what it did.  For create_backup:
\* where it ended (stage: at the source test, in the write, in the prune, or
\* at its return), whether the archive's path existed before the write, and
\* the events it logged, in order.
Idle ==
  [op |-> "none", ret |-> "-", exc |-> "none", caught |-> "none",
   name |-> <<>>, path |-> <<>>, arg |-> NoName, fmt |-> "none",
   source |-> "c", deleted |-> {}, listed |-> <<>>, into |-> NoDest,
   fault |-> FALSE, stage |-> "-", existed |-> FALSE, log |-> <<>>]

\* The processes that run create_backup at the same time.
Procs == {1, 2}

\* A create_backup under way: where it stands (pc), the archive path it
\* wrote, the paths its glob yielded, the archives it still has to delete and
\* those it deleted, the exception that ended it, what it returned.
Parked ==
  [pc |-> "idle", path |-> <<>>, globbed |-> {}, victims |-> <<>>,
   deleted |-> {}, exc |-> "none", ret |-> "-", stage |-> "-"]

\* No call is under way.
NoProcs == [p \in Procs |-> Parked]

InitHist ==
  [creates |-> 0, made |-> EmptyMap, overwrote |-> FALSE, raised |-> FALSE]

\* BackupManager.__init__: the backup directory exists; it holds nothing yet.
InitWith(keeps, formats) ==
  /\ now = TicksPerSecond
  /\ compression \in formats
  /\ keep_versions \in keeps
  /\ src = InitSrc
  /\ bdir = TRUE
  /\ fs = EmptyMap
  /\ dest = NoDest
  /\ res = Idle
  /\ hist = InitHist
  /\ proc = NoProcs

Init == InitWith(KeepChoices, Compressions)

\* ------------------------------------------------------------- create
Ext(c) ==
  CASE c = "zip" -> <<".", "z", "i", "p">>
    [] c = "tar" -> <<".", "t", "a", "r">>
    [] c = "tar.gz" -> <<".", "t", "a", "r", ".", "g", "z">>
    [] OTHER -> <<>>

\* f"{name}_{timestamp}{extension}"
BackupFileName(name, ts, c) == name \o <<"_">> \o ts \o Ext(c)

\* The directory a path is written into exists: the backup directory itself
\* or, through it and "..", its parent.  No other directory of the model has
\* sub-directories that a write could land in.
ParentExists(dirThere, path) ==
  /\ dirThere
  /\ \/ Len(path) = 1
     \/ Len(path) = 2 /\ path[1] = DotDot

\* An archive whose members carry the paths they have inside the source,
\* without the source's base name in front.
MembersUnanchored(source, sname) == source.tree

\* What _create_zip_backup and _create_tar_backup store: every file of the
\* source under an archive path that starts with the source's base name.
ArchiveMembers(source, sname) ==
  {<< <<sname>> \o m[1], m[2] >> : m \in source.tree}

\* Lines 103-118: the write of the archive.  The outcome is the exception
\* raised ("none" when none) and the files afterwards.  `made` is the record
\* of the call, kept with the entry: its logical name (owner), its source and
\* the source's files (snap), the tick (born) and the number of the call.
WriteArchive(files, dirThere, source, sname, path, c, t, made) ==
  LET exists == path \in DOMAIN files
      entry(kind, mtime, container, members) ==
        [kind |-> kind, mtime |-> mtime, container |-> container,
         members |-> members, owner |-> made.owner, serial |-> made.serial,
         born |-> t, sname |-> sname, snap |-> source.tree,
         given |-> made.given]
  IN
  IF ~ParentExists(dirThere, path)
  THEN [exc |-> "FileNotFoundError", files |-> files]
  ELSE IF c \in {"zip", "tar", "tar.gz"}
  THEN IF exists /\ files[path].kind = "dir"
       THEN [exc |-> "IsADirectoryError", files |-> files]
       ELSE [exc |-> "none",
             files |-> Put(files, path,
                           entry("file", t, c, ArchiveMembers(source, sname)))]
  ELSE IF source.kind = "file"
  THEN IF exists /\ files[path].kind = "dir"
       THEN \* shutil.copy2 into an existing directory: dst / source.name
            LET old == files[path]
                there == \E m \in old.members : m[1] = <<sname>>
            IN  [exc |-> "none",
                 files |-> Put(files, path,
                    [old EXCEPT
                       !.members = {m \in @ : m[1] # <<sname>>}
                                     \cup ArchiveMembers(source, sname),
                       !.mtime = IF there THEN @ ELSE t])]
       ELSE \* shutil.copy2 keeps the source's modification time
            [exc |-> "none",
             files |-> Put(files, path,
                           entry("file", source.mtime, "raw", source.tree))]
  ELSE IF exists
       THEN [exc |-> "FileExistsError", files |-> files]
       ELSE \* shutil.copytree ends with copystat of the root
            [exc |-> "none",
             files |-> Put(files, path,
                           entry("dir", source.mtime, "raw", source.tree))]

\* sorted(..., key=st_mtime, reverse=True): the sort is stable and glob yields
\* the directory's order, so entries of equal mtime come in any order.
RECURSIVE MtimeDescOrders(_, _)
MtimeDescOrders(files, S) ==
  IF S = {} THEN {<<>>}
  ELSE UNION { {<<x>> \o rest : rest \in MtimeDescOrders(files, S \ {x})} :
               x \in {y \in S : \A z \in S : files[y].mtime >= files[z].mtime} }

\* seq[k + 1:], for k >= 0: one more entry is kept.
PySliceAfter(seq, k) == SubSeq(seq, Min(k + 1, Len(seq)) + 1, Len(seq))

\* seq[k:]
PySliceFrom(seq, k) ==
  LET n == Len(seq)
      start == IF k >= 0 THEN Min(k, n) ELSE Max(n + k, 0)
  IN  SubSeq(seq, start + 1, n)

\* What is remembered of a deleted entry.
Gone(files, p) ==
  [path |-> p, mtime |-> files[p].mtime, owner |-> files[p].owner,
   serial |-> files[p].serial]

\* Lines 139-141: unlink each in turn; unlink of a directory raises and ends
\* the loop.
RECURSIVE UnlinkEach(_, _)
UnlinkEach(files, victims) ==
  IF victims = <<>>
  THEN [files |-> files, exc |-> "none", deleted |-> {}]
  ELSE IF files[victims[1]].kind = "dir"
  THEN [files |-> files, exc |-> "IsADirectoryError", deleted |-> {}]
  ELSE LET r == UnlinkEach(Remove(files, victims[1]), Tail(victims))
       IN  [r EXCEPT !.deleted = @ \cup {Gone(files, victims[1])}]

\* f"{name}_*"
CleanupPattern(name) == name \o <<"_", "*">>

\* self.backup_dir.glob(pattern): nothing when the directory is gone.
DirGlob(dirThere, files, pattern) ==
  IF dirThere THEN Glob(files, pattern) ELSE {}

\* _cleanup_old_backups(name): the outcomes, one per order the sort may give.
_cleanup_old_backups(dirThere, files, name, keep) ==
  { UnlinkEach(files, PySliceFrom(order, keep)) :
      order \in MtimeDescOrders(files,
                                DirGlob(dirThere, files, CleanupPattern(name))) }

\* Line 94: source.exists()
SourceExistsAlways(source) == TRUE

SourceExists(source) == source.kind # "absent"

\* Lines 98-99: the logical name.
LogicalName(s, arg) == IF arg.some THEN arg.s ELSE SrcName(s)

\* Lines 121 and 141: logger.info once for the archive written, then once
\* for each old archive removed.
CreateLog(deleted) ==
  <<"created">> \o [i \in 1..Cardinality(deleted) |-> "removed"]

\* create_backup(source, name)
create_backup(s, arg) ==
  /\ hist.creates < MaxCreates
  /\ LET call == [Idle EXCEPT !.op = "create", !.arg = arg, !.source = s,
                              !.fmt = compression]
     IN
     IF ~SourceExists(src[s])
     THEN /\ res' = [call EXCEPT !.ret = "None", !.stage = "source",
                                 !.log = <<"error">>]
          /\ hist' = [hist EXCEPT !.creates = @ + 1]
          /\ UNCHANGED fs
     ELSE
       LET name == LogicalName(s, arg)
           fname == BackupFileName(name, _get_timestamp(now), compression)
           path == PathOf(fname)
           w == WriteArchive(fs, bdir, src[s], SrcName(s), path, compression,
                             now, [owner |-> name, serial |-> hist.creates + 1,
                                   given |-> arg])
           named == [call EXCEPT !.name = name, !.path = path,
                                 !.existed = bdir /\ path \in DOMAIN fs]
       IN
       IF w.exc # "none"
       THEN /\ fs' = w.files
            /\ res' = [named EXCEPT !.exc = w.exc, !.stage = "write"]
            /\ hist' = [hist EXCEPT !.creates = @ + 1, !.raised = TRUE]
       ELSE \E c \in _cleanup_old_backups(bdir, w.files, name, keep_versions) :
            /\ fs' = c.files
            /\ res' = [named EXCEPT
                         !.ret = IF c.exc = "none" THEN "path" ELSE "-",
                         !.exc = c.exc,
                         !.deleted = c.deleted,
                         !.stage = IF c.exc = "none" THEN "return"
                                   ELSE "prune",
                         !.log = CreateLog(c.deleted)]
            /\ hist' = [hist EXCEPT
                          !.creates = @ + 1,
                          !.raised = @ \/ c.exc # "none",
                          !.overwrote = @ \/ path \in DOMAIN fs,
                          !.made = IF c.exc = "none"
                                   THEN Put(@, name, Count(@, name) + 1)
                                   ELSE @]
  /\ dest' = NoDest
  /\ UNCHANGED <<now, compression, keep_versions, src, bdir, proc>>

\* ------------------------------------------------------------- list
\* sorted(paths): ascending by path.
RECURSIVE SortedPathsDescending(_)
SortedPathsDescending(S) ==
  IF S = {} THEN <<>>
  ELSE LET most == CHOOSE p \in S : \A q \in S \ {p} : PathLess(q, p)
       IN  <<most>> \o SortedPathsDescending(S \ {most})

RECURSIVE SortedPaths(_)
SortedPaths(S) ==
  IF S = {} THEN <<>>
  ELSE LET least == CHOOSE p \in S : \A q \in S \ {p} : PathLess(p, q)
       IN  <<least>> \o SortedPaths(S \ {least})

\* f"{name}_*" if name else "*"
ListPattern(arg) ==
  IF arg.some /\ arg.s # <<>> THEN arg.s \o <<"_", "*">> ELSE <<"*">>

\* One dict of the list: the file name, the path and the modification time.
BackupInfo(files, p) ==
  [name |-> p[Len(p)], path |-> p, created |-> files[p].mtime]

\* list_backups(name)
list_backups(dirThere, files, arg) ==
  LET paths == SortedPaths(DirGlob(dirThere, files, ListPattern(arg)))
  IN  [i \in 1..Len(paths) |-> BackupInfo(files, paths[i])]

List(arg) ==
  /\ res' = [Idle EXCEPT !.op = "list", !.arg = arg, !.ret = "list",
                         !.listed = list_backups(bdir, fs, arg)]
  /\ dest' = NoDest
  /\ UNCHANGED <<now, compression, keep_versions, src, bdir, fs, hist, proc>>

\* ------------------------------------------------------------- restore
\* The destinations restore_backup is given, as they are before the call:
\* absent, an empty directory, a directory that holds a file, a plain file.
EmptyDir == [kind |-> "dir", tree |-> {}]
DestChoices ==
  { NoDest, EmptyDir,
    [kind |-> "dir", tree |-> {<< <<<<"a">>>>, 9 >>}],
    [kind |-> "file", tree |-> FileTree(9)] }

\* An archive path that create_backup never wrote.
MissingArchive == << <<"c", ".", "z", "i", "p">> >>

\* Lines 188-198: the codec, from the file name alone.
CodecFor(fname) ==
  IF Suffix(fname) = <<".", "z", "i", "p">> THEN "zip"
  ELSE IF \E i \in 1..Len(Suffixes(fname)) :
            Suffixes(fname)[i] = <<".", "t", "a", "r">>
       THEN "tar"
  ELSE "copy"

\* Files written over a tree: a file of the same path is replaced.
Overlay(tree, written) ==
  {m \in tree : \A n \in written : n[1] # m[1]} \cup written

\* extractall(destination): every member under the destination, which is
\* created when absent.  With an I/O fault only `done` of them are written.
ExtractAll(members, d0, fault, done) ==
  IF members # {} /\ d0.kind = "file"
  THEN [exc |-> "NotADirectoryError", dest |-> d0]
  ELSE LET written == IF fault THEN done ELSE members
       IN  [exc |-> IF fault THEN "OSError" ELSE "none",
            dest |-> IF written = {} THEN d0
                     ELSE [kind |-> "dir", tree |-> Overlay(d0.tree, written)]]

\* Lines 189-190: zipfile.ZipFile(backup_path, "r").extractall(destination)
RestoreZip(e, d0, fault, done) ==
  IF e.kind = "dir" THEN [exc |-> "IsADirectoryError", dest |-> d0]
  ELSE IF e.container # "zip" THEN [exc |-> "BadZipFile", dest |-> d0]
  ELSE ExtractAll(e.members, d0, fault, done)

\* Lines 192-193: tarfile.open(backup_path, "r:*").extractall(destination);
\* "r:*" reads plain and gzip tar alike.
RestoreTar(e, d0, fault, done) ==
  IF e.kind = "dir" THEN [exc |-> "IsADirectoryError", dest |-> d0]
  ELSE IF e.container \notin {"tar", "tar.gz"}
  THEN [exc |-> "ReadError", dest |-> d0]
  ELSE ExtractAll(e.members, d0, fault, done)

\* Lines 195-198: shutil.copy2 of a file (into the destination when that is a
\* directory, under the archive's own file name), shutil.copytree of a
\* directory (the destination must not exist).
RestoreCopy(e, fname, d0, fault, done) ==
  IF e.kind = "file"
  THEN IF fault THEN [exc |-> "OSError", dest |-> d0]
       ELSE LET bytes == IF e.container = "raw" THEN e.members
                         ELSE FileTree(-1)
            IN  [exc |-> "none",
                 dest |-> IF d0.kind = "dir"
                          THEN [kind |-> "dir",
                                tree |-> Overlay(d0.tree,
                                           {<< <<fname>>, m[2] >> : m \in bytes})]
                          ELSE [kind |-> "file", tree |-> bytes]]
  ELSE IF d0.kind # "absent"
  THEN [exc |-> "FileExistsError", dest |-> d0]
  ELSE IF fault
  THEN [exc |-> "OSError", dest |-> [kind |-> "dir", tree |-> done]]
  ELSE [exc |-> "none", dest |-> [kind |-> "dir", tree |-> e.members]]

\* Lines 187-204 without the handler: the exception leaves restore_backup.
Uncaught(exc) ==
  [ret |-> IF exc = "none" THEN "True" ELSE "-", exc |-> exc,
   caught |-> "none"]

\* Lines 187-204: try ... return True / except Exception ... return False
CatchAll(exc) ==
  [ret |-> IF exc = "none" THEN "True" ELSE "False", exc |-> "none",
   caught |-> exc]

\* Lines 200 and 203: logger.info when the try block ended, logger.error in
\* the handler; nothing when the exception leaves the method.
RestoreLog(end) ==
  IF end.ret = "True" THEN <<"restored">>
  ELSE IF end.caught # "none" THEN <<"error">>
  ELSE <<>>

\* Line 183: backup_path.exists()
ArchiveExists(dirThere, files, p) == dirThere /\ p \in DOMAIN files

\* restore_backup(backup_path, destination)
restore_backup(p, d0, fault, done) ==
  /\ LET call == [Idle EXCEPT !.op = "restore", !.path = p, !.into = d0,
                              !.fault = fault]
     IN
     IF ~ArchiveExists(bdir, fs, p)
     THEN /\ ~fault /\ done = {}
          /\ res' = [call EXCEPT !.ret = "False", !.log = <<"error">>]
          /\ dest' = d0
     ELSE LET e == fs[p]
              fname == p[Len(p)]
              codec == CodecFor(fname)
              out == CASE codec = "zip" -> RestoreZip(e, d0, fault, done)
                       [] codec = "tar" -> RestoreTar(e, d0, fault, done)
                       [] OTHER -> RestoreCopy(e, fname, d0, fault, done)
              end == CatchAll(out.exc)
          IN  /\ fault => done \in (SUBSET e.members) \ {e.members}
              /\ ~fault => done = {}
              /\ res' = [call EXCEPT !.ret = end.ret, !.exc = end.exc,
                                     !.caught = end.caught,
                                     !.log = RestoreLog(end)]
              /\ dest' = out.dest
  /\ UNCHANGED <<now, compression, keep_versions, src, bdir, fs, hist, proc>>

Restores ==
  \E p \in DOMAIN fs \cup {MissingArchive}, d0 \in DestChoices,
     fault \in BOOLEAN :
    \E done \in IF fault /\ p \in DOMAIN fs THEN SUBSET fs[p].members ELSE {{}} :
      restore_backup(p, d0, fault, done)

\* ------------------------------------------------------------- environment
\* res and dest describe the call that ended in the last step; a step of the
\* environment leaves no outcome.
Forget == res' = Idle /\ dest' = NoDest

\* Time passes.
Tick ==
  /\ now < MaxClock
  /\ now' = now + 1
  /\ Forget
  /\ UNCHANGED <<compression, keep_versions, src, bdir, fs, hist, proc>>

\* The user edits the files of a source in place: new content, and for a plain
\* file a new modification time (a directory's own mtime does not change).
ModifySource(s) ==
  /\ src[s].kind # "absent"
  /\ \A m \in src[s].tree : m[2] < MaxVersion
  /\ src' = [src EXCEPT ![s] =
               [@ EXCEPT !.tree = {<<m[1], m[2] + 1>> : m \in @},
                         !.mtime = IF src[s].kind = "file" THEN now ELSE @]]
  /\ Forget
  /\ UNCHANGED <<now, compression, keep_versions, bdir, fs, hist, proc>>

\* The user removes the backup directory while it is empty (§3: deletion from
\* outside the engine).
RemoveBackupDir ==
  /\ bdir
  /\ \A p \in DOMAIN fs : Len(p) # 1
  /\ bdir' = FALSE
  /\ Forget
  /\ UNCHANGED <<now, compression, keep_versions, src, fs, hist, proc>>

Creates(calls) == \E c \in calls : create_backup(c[1], c[2])

\* Retention: an engine of one format, the clock, edits of the sources.
Next ==
  \/ Creates(PlainCalls \cup {EscapingCall, MissingCall})
  \/ Tick
  \/ ModifySource("a")
  \/ RemoveBackupDir

Spec == Init /\ [][Next]_vars

\* Listing: creates under plain and unusual names, and list_backups.
NextList ==
  \/ Creates(PlainCalls \cup {NamedCall})
  \/ \E arg \in ListNames : List(arg)
  \/ Tick

\* restore_backup changes nothing but the destination it is given, which is an
\* input of each call: a restore that follows a restore reaches the states the
\* first one reaches, so it is taken from the other states only.
FirstRestore == res.op # "restore" /\ Restores

\* Restoring: creates within one second, edits of the sources, restore_backup.
NextRestore ==
  \/ Creates(PlainCalls \cup {DottedCall})
  \/ FirstRestore
  \/ ModifySource("a")

InitRestore == InitWith({2}, Compressions)

SpecRestore == InitRestore /\ [][NextRestore]_vars

\* Restoring the archives of a directory: creates of the directory source,
\* under its own name and under a dotted one, and restore_backup.
NextLayout ==
  \/ Creates({<<"a_b", NoName>>, DottedDirCall})
  \/ FirstRestore
  \/ Tick

SpecLayout == InitRestore /\ [][NextLayout]_vars

InitList == InitWith({2}, Compressions)

SpecList == InitList /\ [][NextList]_vars

\* Retention counts that are not positive: self.keep_versions is any int.
NonPositiveKeeps == {0, -1}

\* BackupManager(backup_dir, compression, keep_versions) once more over the
\* same backup directory: mkdir(parents=True, exist_ok=True) and the new
\* retention count.
NewManager(k) ==
  /\ k # keep_versions
  /\ keep_versions' = k
  /\ bdir' = TRUE
  /\ Forget
  /\ UNCHANGED <<now, compression, src, fs, hist, proc>>

\* Creating under a retention count of zero or less, in a directory that an
\* earlier manager may have filled.
NextKeep ==
  \/ Creates(PlainCalls)
  \/ Tick
  \/ \E k \in NonPositiveKeeps : NewManager(k)

\* As Init, with the clock at the start of the day.
InitKeep ==
  /\ now = 0
  /\ compression \in Compressions
  /\ keep_versions \in KeepChoices \cup NonPositiveKeeps
  /\ src = InitSrc
  /\ bdir = TRUE
  /\ fs = EmptyMap
  /\ dest = NoDest
  /\ res = Idle
  /\ hist = InitHist
  /\ proc = NoProcs

SpecKeep == InitKeep /\ [][NextKeep]_vars

\* ------------------------------------------------- concurrent creates
\* Two processes call create_backup(source) for the same source, each with
\* its own BackupManager of the same configuration over one backup directory.
\* A call is a sequence of file-system operations, and the other process may
\* act between any two of them.
RaceSource == "a"
RaceName == LogicalName(RaceSource, NoName)

\* The archives that earlier runs left.
MaxEarlier == 1

\* The backup directory after n earlier create_backup calls, one per second
\* from the start of the day up to the present one, none of them pruned (n is
\* at most the keep_versions of the manager that made them).
RECURSIVE Earlier(_, _)
Earlier(c, n) ==
  IF n = 0 THEN EmptyMap
  ELSE LET t == (n - 1) * TicksPerSecond
           path == PathOf(BackupFileName(RaceName, _get_timestamp(t), c))
       IN  WriteArchive(Earlier(c, n - 1), TRUE, InitSrc[RaceSource],
                        SrcName(RaceSource), path, c, t,
                        [owner |-> RaceName, serial |-> n,
                         given |-> NoName]).files

InitRace ==
  /\ now = TicksPerSecond
  /\ compression \in Compressions
  /\ keep_versions \in KeepChoices
  /\ src = InitSrc
  /\ bdir = TRUE
  /\ \E n \in 0..MaxEarlier :
       /\ fs = Earlier(compression, n)
       /\ hist = [InitHist EXCEPT
                    !.creates = n,
                    !.made = IF n = 0 THEN EmptyMap
                             ELSE Put(EmptyMap, RaceName, n)]
  /\ dest = NoDest
  /\ res = Idle
  /\ proc = [p \in Procs |-> [Parked EXCEPT !.pc = "start"]]

\* How a call ends: with an exception at a stage, or returning its path.
Raised(call, exc, stage) ==
  [call EXCEPT !.pc = "done", !.exc = exc, !.stage = stage]

Returned(call) ==
  [call EXCEPT !.pc = "done", !.ret = "path", !.stage = "return"]

\* Lines 98-118: the name, the timestamp and the write of the archive.
Write(p) ==
  /\ proc[p].pc = "start"
  /\ LET path == PathOf(BackupFileName(RaceName, _get_timestamp(now),
                                       compression))
         w == WriteArchive(fs, bdir, src[RaceSource], SrcName(RaceSource),
                           path, compression, now,
                           [owner |-> RaceName, serial |-> hist.creates + 1,
                            given |-> NoName])
     IN  /\ fs' = w.files
         /\ proc' = [proc EXCEPT ![p] =
                       IF w.exc # "none" THEN Raised(@, w.exc, "write")
                       ELSE [@ EXCEPT !.pc = "written", !.path = path]]
         /\ hist' = [hist EXCEPT !.creates = @ + 1]
  /\ UNCHANGED <<now, compression, keep_versions, src, bdir, dest, res>>

\* Lines 120-121 and 132-134: backup_path.stat() for the size, then the glob,
\* which sorted() consumes whole before it computes any key.
Enumerate(p) ==
  /\ proc[p].pc = "written"
  /\ proc' = [proc EXCEPT ![p] =
                IF @.path \notin DOMAIN fs
                THEN Raised(@, "FileNotFoundError", "stat")
                ELSE [@ EXCEPT
                        !.pc = "globbed",
                        !.globbed = DirGlob(bdir, fs,
                                            CleanupPattern(RaceName))]]
  /\ UNCHANGED <<now, compression, keep_versions, src, bdir, fs, dest, res,
                 hist>>

\* Lines 135-139: the key of every path the glob yielded (p.stat() raises for
\* a path that is gone), the sort, and the slice after keep_versions.
KeyAndSlice(p) ==
  /\ proc[p].pc = "globbed"
  /\ IF \E q \in proc[p].globbed : q \notin DOMAIN fs
     THEN proc' = [proc EXCEPT ![p] =
                     Raised(@, "FileNotFoundError", "prune")]
     ELSE \E order \in MtimeDescOrders(fs, proc[p].globbed) :
            LET victims == PySliceFrom(order, keep_versions)
            IN  proc' = [proc EXCEPT ![p] =
                           IF victims = <<>> THEN Returned(@)
                           ELSE [@ EXCEPT !.pc = "pruning",
                                          !.victims = victims]]
  /\ UNCHANGED <<now, compression, keep_versions, src, bdir, fs, dest, res,
                 hist>>

\* Path.unlink(missing_ok=True): a path that is gone is passed over.
UnlinkMissingOk(files, q) ==
  IF q \notin DOMAIN files THEN [exc |-> "none", files |-> files]
  ELSE IF files[q].kind = "dir"
  THEN [exc |-> "IsADirectoryError", files |-> files]
  ELSE [exc |-> "none", files |-> Remove(files, q)]

\* Line 140: old_backup.unlink()
UnlinkOne(files, q) ==
  IF q \notin DOMAIN files THEN [exc |-> "FileNotFoundError", files |-> files]
  ELSE IF files[q].kind = "dir"
  THEN [exc |-> "IsADirectoryError", files |-> files]
  ELSE [exc |-> "none", files |-> Remove(files, q)]

\* Lines 139-141 and 124: one turn of the loop, and the return after the last.
Unlink(p) ==
  /\ proc[p].pc = "pruning"
  /\ LET q == Head(proc[p].victims)
         rest == Tail(proc[p].victims)
         u == UnlinkOne(fs, q)
     IN  /\ fs' = u.files
         /\ proc' = [proc EXCEPT ![p] =
                       IF u.exc # "none" THEN Raised(@, u.exc, "prune")
                       ELSE LET after == [@ EXCEPT
                                            !.victims = rest,
                                            !.deleted = @ \cup {q}]
                            IN  IF rest = <<>> THEN Returned(after)
                                ELSE after]
  /\ UNCHANGED <<now, compression, keep_versions, src, bdir, dest, res, hist>>

NextRace ==
  \/ \E p \in Procs : Write(p)
  \/ \E p \in Procs : Enumerate(p)
  \/ \E p \in Procs : KeyAndSlice(p)
  \/ \E p \in Procs : Unlink(p)
  \/ Tick

SpecRace == InitRace /\ [][NextRace]_vars

\* ------------------------------------------------- failing writes
\* What a write puts at the archive's path when all goes well: the members of
\* a zip or tar archive, the files of a plain copy.
FullWrite(files, source, sname, path, c) ==
  IF c \in {"zip", "tar", "tar.gz"} THEN ArchiveMembers(source, sname)
  ELSE IF source.kind = "file" /\ path \in DOMAIN files
          /\ files[path].kind = "dir"
  THEN ArchiveMembers(source, sname)
  ELSE source.tree

\* Lines 103-118 with an I/O failure part-way (the disk is full): what fails
\* before anything is written fails as in WriteArchive; otherwise the target
\* is there and holds only `done` of what was to be written.  ZipFile,
\* tarfile.open and copy2 raise the OSError and leave a file of the present
\* time; copytree copies what it can, ends with copystat, and raises
\* shutil.Error.
WritePartial(files, dirThere, source, sname, path, c, t, made, done) ==
  LET w == WriteArchive(files, dirThere, source, sname, path, c, t, made)
      full == FullWrite(files, source, sname, path, c)
  IN
  IF w.exc # "none" THEN w
  ELSE [exc |-> IF c = "none" /\ source.kind = "dir" THEN "Error"
                ELSE "OSError",
        files |-> Put(w.files, path,
                      [w.files[path] EXCEPT
                         !.container = "partial",
                         !.members = (@ \ full) \cup done,
                         !.mtime = IF c = "none" /\ source.kind = "file"
                                      /\ w.files[path].kind = "file"
                                   THEN t ELSE @])]

\* _cleanup_old_backups run although the write failed.
PruneAfterFailedWrite(dirThere, files, name, keep) ==
  _cleanup_old_backups(dirThere, files, name, keep)

\* Lines 103-123: the exception of the write leaves create_backup before
\* line 123; _cleanup_old_backups is not called.
AfterFailedWrite(dirThere, files, name, keep) ==
  { [files |-> files, exc |-> "none", deleted |-> {}] }

\* create_backup(source, name) of an existing source, with an I/O failure
\* during the write of the archive.
FailingCreate(s, arg) ==
  /\ hist.creates < MaxCreates
  /\ SourceExists(src[s])
  /\ LET name == LogicalName(s, arg)
         fname == BackupFileName(name, _get_timestamp(now), compression)
         path == PathOf(fname)
         full == FullWrite(fs, src[s], SrcName(s), path, compression)
         call == [Idle EXCEPT !.op = "create", !.arg = arg, !.source = s,
                              !.fmt = compression, !.name = name,
                              !.path = path, !.fault = TRUE,
                              !.existed = bdir /\ path \in DOMAIN fs]
     IN  \E done \in (SUBSET full) \ {full} :
           LET w == WritePartial(fs, bdir, src[s], SrcName(s), path,
                                 compression, now,
                                 [owner |-> name,
                                  serial |-> hist.creates + 1,
                                  given |-> arg], done)
           IN  \E c \in AfterFailedWrite(bdir, w.files, name, keep_versions) :
                 /\ fs' = c.files
                 /\ res' = [call EXCEPT !.exc = w.exc, !.stage = "write",
                                        !.deleted = c.deleted]
  /\ hist' = [hist EXCEPT !.creates = @ + 1, !.raised = TRUE]
  /\ dest' = NoDest
  /\ UNCHANGED <<now, compression, keep_versions, src, bdir, proc>>

FailingCreates(calls) == \E c \in calls : FailingCreate(c[1], c[2])

\* Creates that complete and creates whose write fails, lists, the clock.
NextFault ==
  \/ Creates(PlainCalls)
  \/ FailingCreates(PlainCalls)
  \/ List(Some(<<"a">>))
  \/ Tick

InitFault == InitWith({1}, Compressions)

SpecFault == InitFault /\ [][NextFault]_vars

\* ------------------------------------------------------------- claims
\* The archives a create left under a logical name.
ArchivesOf(n) == {p \in DOMAIN fs : fs[p].owner = n}

\* C1: after N successful creates for a logical name with keepVersions = k
\* (k >= 1), list(name) returns min(N, k) records and the directory holds
\* min(N, k) archives of that name, whatever other names are present.  Stated
\* for runs in which no create raised and none overwrote an existing archive.
C1_CountIsMinOfCreatesAndKeep ==
  (bdir /\ ~hist.raised /\ ~hist.overwrote) =>
    \A n \in DOMAIN hist.made :
      /\ Len(list_backups(bdir, fs, Some(n))) = Min(hist.made[n], keep_versions)
      /\ Cardinality(ArchivesOf(n)) = Min(hist.made[n], keep_versions)

\* C2: a create for a logical name deletes no archive created under another
\* logical name.
C2_PruneOnlyOwnName ==
  res.op = "create" => \A d \in res.deleted : d.owner = res.name

\* C3: among the archives of the logical name, prune leaves the keepVersions
\* with the greatest modification time and deletes every other one: after a
\* create that returned, at most keepVersions archives of the name remain and
\* each deleted one is older than keepVersions that remain.
C3_PruneKeepsNewestOfName ==
  (res.op = "create" /\ res.ret = "path") =>
    /\ Cardinality(ArchivesOf(res.name)) <= keep_versions
    /\ \A d \in res.deleted :
         d.owner = res.name =>
           Cardinality({p \in ArchivesOf(res.name) : fs[p].mtime >= d.mtime})
             >= keep_versions

\* A step that is a call of create_backup.
CreateStep == hist'.creates = hist.creates + 1

C10_ArchiveNamedInBackupDir ==
  \A p \in DOMAIN fs :
    LET e == fs[p]
        logical == IF e.given.some THEN e.given.s ELSE e.sname
        hhmmss == TwoDigits(SecondOf(e.born) \div 3600)
                    \o TwoDigits((SecondOf(e.born) \div 60) % 60)
                    \o TwoDigits(SecondOf(e.born) % 60)
        extension == CASE e.container = "zip" -> <<".", "z", "i", "p">>
                       [] e.container = "tar" -> <<".", "t", "a", "r">>
                       [] e.container = "tar.gz" ->
                            <<".", "t", "a", "r", ".", "g", "z">>
                       [] OTHER -> <<>>
    IN  p = << logical \o <<"_">> \o Today \o <<"_">> \o hhmmss \o extension >>

\* The paths of the records of the last list.
Listed == {res.listed[i].path : i \in 1..Len(res.listed)}

\* The entries of the backup directory itself.
InBackupDir == {p \in DOMAIN fs : Len(p) = 1}

StartsWith(s, pre) == Len(s) >= Len(pre) /\ SubSeq(s, 1, Len(pre)) = pre

C6_ListFiltersByPrefix ==
  res.op = "list" =>
    /\ Cardinality(Listed) = Len(res.listed)
    /\ Listed = IF res.arg.some
                THEN {p \in InBackupDir :
                        StartsWith(p[1], res.arg.s \o <<"_">>)}
                ELSE InBackupDir

\* ------------------------------------------------ claims about restore
\* The files of a source as they lie under a restored destination: below a
\* folder of the source's name, or as the destination's own content.
Anchored(e) == {<< <<e.sname>> \o m[1], m[2] >> : m \in e.snap}

\* The destination holds the files of the archive's source and no others:
\* under their own paths, under the source's name, or (a single file) under
\* whatever name the copy gave it.
SameFiles(d, e) ==
  \/ d.tree = e.snap
  \/ d.kind = "dir" /\ d.tree = Anchored(e)
  \/ /\ d.kind = "dir"
     /\ Cardinality(d.tree) = 1 /\ Cardinality(e.snap) = 1
     /\ \A m \in d.tree, n \in e.snap : n[1] = <<>> /\ m[2] = n[2]

\* A restore_backup without I/O fault of an archive that create_backup wrote,
\* into a destination that is absent or an empty directory.
RestoredToEmpty ==
  /\ res.op = "restore"
  /\ ArchiveExists(bdir, fs, res.path)
  /\ ~res.fault
  /\ res.into \in {NoDest, EmptyDir}

\* C4: for every source and every format, restoring an archive that create
\* returned into an empty destination succeeds, and the destination then
\* holds the same files with the same contents as the source had.
C4_RoundTripEveryFormat ==
  RestoredToEmpty =>
    /\ res.ret = "True"
    /\ SameFiles(dest, fs[res.path])

\* The extraction of an archive is complete in a destination: every stored
\* member is there with its content (a copied file under the name the copy
\* gave it).
Completed(d, e) ==
  \/ e.members \subseteq d.tree
  \/ /\ e.kind = "file" /\ e.container = "raw"
     /\ \A m \in e.members : \E n \in d.tree : n[2] = m[2]

\* C7: restore_backup never raises to its caller.  It returns False when the
\* archive path does not exist and when the codec fails (content that is not
\* of the codec, a destination already present, an I/O fault), and True only
\* when the extraction completed.
C7_RestoreNeverRaises ==
  res.op = "restore" =>
    /\ res.exc = "none"
    /\ res.ret \in {"True", "False"}
    /\ ~ArchiveExists(bdir, fs, res.path) => res.ret = "False"
    /\ res.caught # "none" => res.ret = "False"
    /\ res.ret = "True" =>
         /\ ~res.fault
         /\ res.caught = "none"
         /\ Completed(dest, fs[res.path])

\* A codec failed inside restore_backup and the call returned False.
C7_Witness ==
  /\ res.op = "restore"
  /\ ArchiveExists(bdir, fs, res.path)
  /\ res.caught \in {"OSError", "FileExistsError", "ReadError"}
  /\ res.ret = "False"
  /\ res.exc = "none"

\* The codec that reads what create_backup writes in a format.
CodecOfFormat(container) ==
  CASE container = "zip" -> "zip"
    [] container \in {"tar", "tar.gz"} -> "tar"
    [] OTHER -> "copy"

\* C9: restore_backup chooses the codec from the file name alone (.zip, then
\* .tar among the suffixes, else a plain copy), and every archive that
\* create_backup wrote in a format is given to the codec of that format,
\* whatever the logical name.
C9_DispatchMatchesFormat ==
  res.op = "restore" /\ ArchiveExists(bdir, fs, res.path) =>
    CodecFor(res.path[Len(res.path)]) = CodecOfFormat(fs[res.path].container)

\* ------------------------------------------- claims about create's errors
\* The name given to the call holds a path separator or a "*".
InvalidName(arg) ==
  arg.some /\ \E i \in 1..Len(arg.s) : arg.s[i] \in {"/", "*"}

\* C11: a create whose logical name holds the path separator or "*" fails
\* with InvalidNameError before any archive is written or deleted: the call
\* leaves no archive of its own and deletes none.
C11_InvalidNameRejected ==
  (res.op = "create" /\ InvalidName(res.arg) /\ res.stage # "source") =>
    /\ res.exc = "InvalidNameError"
    /\ res.deleted = {}
    /\ \A p \in DOMAIN fs : fs[p].serial # hist.creates

\* C12: with keepVersions <= 0 prune keeps no history: after a create that
\* returned its path, no archive of the name written by an earlier create
\* remains.
C12_NonPositiveKeepsNoHistory ==
  (res.op = "create" /\ res.ret = "path" /\ keep_versions <= 0) =>
    \A p \in ArchivesOf(res.name) : fs[p].serial = hist.creates

\* C13: a deletion that fails during prune aborts neither the prune nor the
\* create: whenever the archive was written the create returns its path
\* without an exception, and of the entries matching the name's pattern no
\* more plain files remain than keepVersions (every excess entry that can be
\* deleted has been).
C13_PruneFailureDoesNotAbort ==
  (res.op = "create" /\ res.stage \in {"prune", "return"}) =>
    /\ res.exc = "none"
    /\ res.ret = "path"
    /\ Cardinality({p \in DirGlob(bdir, fs, CleanupPattern(res.name)) :
                      fs[p].kind = "file"}) <= keep_versions

\* C14: when the source exists and the write of the archive fails, create
\* reports the failure to its caller as an ArchiveWriteError that wraps the
\* underlying error, in every format.
C14_WriteFailureWrapped ==
  (res.op = "create" /\ res.stage = "write") =>
    res.exc = "ArchiveWriteError" \/ res.ret = "ArchiveWriteError"

\* C15: a create whose archive name exists already (same logical
\* name, format and second) overwrites it silently, in every format and for
\* file and directory sources: it returns its path without error and the
\* archive of that name then holds this create's content.
C15_SameSecondOverwrites ==
  (res.op = "create" /\ res.existed) =>
    /\ res.exc = "none"
    /\ res.ret = "path"
    /\ res.path \in DOMAIN fs
    /\ fs[res.path].serial = hist.creates
    /\ fs[res.path].snap = src[res.source].tree

\* The file name of a path.
NameOf(p) == p[Len(p)]

\* C16: among archives of the logical name with equal modification
\* time the order of the prune puts the lexicographically greater file name
\* first: a deleted archive has a smaller name than every retained archive
\* of the name with its modification time.
C16_TiesBrokenByName ==
  (res.op = "create" /\ res.ret = "path") =>
    \A d \in res.deleted : \A p \in ArchivesOf(res.name) :
      (d.owner = res.name /\ fs[p].mtime = d.mtime) =>
        StrLess(NameOf(d.path), NameOf(p))

\* How often an event occurs in a log.
Events(log, kind) == Cardinality({i \in 1..Len(log) : log[i] = kind})

\* C19: every failure (missing source, failed write, failed deletion in the
\* prune, missing archive, failed codec) logs exactly one event, and every
\* successful create, every successful restore and every pruned archive logs
\* exactly one event.
C19_OneEventPerOutcome ==
  /\ (res.op = "create" /\ res.stage = "source") => res.log = <<"error">>
  /\ (res.op = "create" /\ res.stage \in {"write", "prune"}) =>
       Events(res.log, "error") = 1
  /\ (res.op = "create" /\ res.stage = "return") =>
       /\ Events(res.log, "created") = 1
       /\ Events(res.log, "removed") = Cardinality(res.deleted)
       /\ Events(res.log, "error") = 0
  /\ (res.op = "restore" /\ res.ret = "False") => res.log = <<"error">>
  /\ (res.op = "restore" /\ res.ret = "True") => res.log = <<"restored">>


\* ------------------------------------------- claims about the stored layout
\* The archive was written from a directory: its files lie below the source.
DirSource(e) == e.snap # {} /\ \A m \in e.snap : m[1] # <<>>

\* A restore_backup without I/O fault of the archive of a directory source
\* into a destination that is absent or an empty directory.
DirRestoredToFresh ==
  /\ RestoredToEmpty
  /\ DirSource(fs[res.path])

\* C20: for every directory source and every format, restoring its archive to
\* a fresh destination reproduces a top-level folder named after the source:
\* the source's file at p is at <destination>/<source base name>/p.
C20_AnchoredEveryFormat ==
  DirRestoredToFresh =>
    /\ res.ret = "True"
    /\ dest.tree = Anchored(fs[res.path])

\* C20, as the code has it: the zip, tar and tar.gz archives of a directory
\* restore to <destination>/<source base name>/p.  The plain copy (format
\* none) restores to <destination>/p, without a top-level folder, and only
\* when the destination does not exist yet and the file name sends it to the
\* copy branch; otherwise restore_backup returns False and leaves the
\* destination as it was.
C20_AnchoredExceptPlainCopy ==
  DirRestoredToFresh =>
    LET e == fs[res.path]
        codec == CodecFor(NameOf(res.path))
    IN  IF e.container # "raw"
        THEN /\ res.ret = "True"
             /\ dest.tree = Anchored(e)
        ELSE IF codec = "copy" /\ res.into = NoDest
        THEN /\ res.ret = "True"
             /\ dest.kind = "dir"
             /\ dest.tree = e.members
             /\ e.snap \subseteq dest.tree
        ELSE /\ res.ret = "False"
             /\ dest = res.into

\* The plain copy of a directory was restored into a new destination: the
\* source's files are there under their own paths, not under its name.
C20_Witness ==
  /\ DirRestoredToFresh
  /\ fs[res.path].container = "raw"
  /\ res.ret = "True"
  /\ dest.tree = fs[res.path].snap
  /\ dest.tree # Anchored(fs[res.path])


\* ------------------------------------------- claims about concurrent creates
\* Both concurrent creates have ended.
BothEnded == \A p \in Procs : proc[p].pc = "done"

\* C17: with two processes running create concurrently for one logical name,
\* there is an interleaving after which both creates have ended and more than
\* keep_versions archives of the name remain (the witness is such a state).
\* It is the only way to an excess: whenever both have ended and more than
\* keep_versions archives remain, one of the creates was ended by a
\* FileNotFoundError for an archive the other had deleted.
C17_ExcessOnlyAfterAbortedCreate ==
  (BothEnded /\ Cardinality(ArchivesOf(RaceName)) > keep_versions) =>
    \E p \in Procs : proc[p].exc = "FileNotFoundError"

\* Both creates have ended and more than keep_versions archives remain.
C17_Witness ==
  /\ BothEnded
  /\ Cardinality(ArchivesOf(RaceName)) > keep_versions

\* The prune of process p is about to read or delete an archive that it
\* enumerated and that is gone since.
MeetsDeleted(p) ==
  \/ /\ proc[p].pc = "globbed"
     /\ \E q \in proc[p].globbed : q \notin DOMAIN fs
  \/ /\ proc[p].pc = "pruning"
     /\ Head(proc[p].victims) \notin DOMAIN fs

\* C18: when the prune of one process reads or deletes an archive that it
\* enumerated and that the other process has deleted since, its create ends
\* there with an error, after its own archive was written, and deletes
\* nothing more: the excess archives it had left stay undeleted by it.
C18_MeetingDeletedEndsCreate ==
  [][\A p \in Procs :
       (MeetsDeleted(p) /\ proc'[p] # proc[p]) =>
         /\ proc'[p].pc = "done"
         /\ proc'[p].exc = "FileNotFoundError"
         /\ proc'[p].ret = "-"
         /\ proc[p].path # <<>>
         /\ proc'[p].deleted = proc[p].deleted
         /\ proc'[p].victims = proc[p].victims
         /\ fs' = fs]_vars

\* A create was ended in its prune by a missing archive, and one of the
\* archives it still had to delete is there.
C18_Witness ==
  \E p \in Procs :
    /\ proc[p].pc = "done"
    /\ proc[p].exc = "FileNotFoundError"
    /\ proc[p].stage = "prune"
    /\ proc[p].path # <<>>
    /\ proc[p].victims # <<>>
    /\ Head(proc[p].victims) \notin DOMAIN fs
    /\ \E i \in 1..Len(proc[p].victims) : proc[p].victims[i] \in DOMAIN fs


\* ------------------------------------------- claims about the written archive
\* C21: for keep_versions >= 1, the archive written by a successful create is
\* never among the archives that the same create prunes: the path that create
\* returns exists in the backup directory when create returns, in every
\* format and whatever the source's own modification time.
C21_ReturnedPathExists ==
  (res.op = "create" /\ res.ret = "path" /\ keep_versions >= 1) =>
    /\ res.path \in DOMAIN fs
    /\ fs[res.path].serial = hist.creates
    /\ \A d \in res.deleted : d.path # res.path


\* ------------------------------------------- claims about failing writes
\* Every path that list_backups' pattern matches is in the list it returned.
AllListed ==
  \A p \in DirGlob(bdir, fs, ListPattern(res.arg)) :
    \E i \in 1..Len(res.listed) : res.listed[i].path = p

\* What the prune's pattern matches after a create, complete or partial.
Matched == DirGlob(bdir, fs, CleanupPattern(res.name))

\* C22: a create whose archive write fails part-way deletes no archive (the
\* prune runs only after a completed write) and changes nothing in the backup
\* directory but the target path, which holds the partial file; later lists
\* return the partial file with the others, and later prunes count and order
\* it by its modification time like a complete archive.
C22_FailedWriteChangesOnlyTarget ==
  [][/\ (res'.op = "create" /\ res'.fault) =>
          /\ res'.exc # "none"
          /\ res'.ret = "-"
          /\ res'.deleted = {}
          /\ DOMAIN fs' \subseteq DOMAIN fs \cup {res'.path}
          /\ \A p \in DOMAIN fs :
               p # res'.path => p \in DOMAIN fs' /\ fs'[p] = fs[p]
     /\ res'.op = "list" => AllListed'
     /\ (res'.op = "create" /\ res'.ret = "path") =>
          /\ Cardinality(Matched') <= keep_versions
          /\ \A d \in res'.deleted : \A p \in Matched' :
               fs'[p].mtime >= d.mtime]_vars

\* A write failed part-way where one archive is kept: the partial file is at
\* the target path, beside an archive of the same name written before.
C22_Witness ==
  /\ res.op = "create" /\ res.fault
  /\ res.exc \in {"OSError", "Error"}
  /\ keep_versions = 1
  /\ res.path \in DOMAIN fs
  /\ fs[res.path].container = "partial"
  /\ \E p \in ArchivesOf(res.name) :
       p # res.path /\ fs[p].container # "partial"

====
